---------------------------- MODULE Spec2Model ----------------------------
(***************************************************************************)
(* FinRegAgents: the evaluation core of agents/pruef_agent.py              *)
(* (compute_confidence, validate_befund_structure, extract_json,           *)
(* PrueferAgent.pruefe_feld) and the run loop of pipeline.py               *)
(* (AuditPipeline.run).                                                    *)
(*                                                                         *)
(* Numbers.  Relevance scores and the self-reported confidence are in      *)
(* hundredths (35 is 0.35), the fused confidence is in thousandths (400    *)
(* is 0.400), which is the grid round(., 3) produces.                      *)
(*                                                                         *)
(* Strings.  A Python str that the code searches (a file name, a keyword,  *)
(* a justification) is a tuple of one-character strings; a str the code    *)
(* only compares or stores (a verdict, a document type) is a TLA+ string.  *)
(*                                                                         *)
(* Python values of unknown type (what json.loads returns) carry a tag t:  *)
(* "none", "str", "num", "list", "dict".  The verdict strings are the       *)
(* values of the enum Bewertung, written in ASCII ("nicht_pruefbar").      *)
(***************************************************************************)
EXTENDS Integers, Sequences, FiniteSets, TLC

VARIABLES
    arg,            \* the arguments of the pure function under check
    ret,            \* <<>> before the call, <<value>> after it
    hashseed,       \* the process's str-hash seed: fixes the iteration order of sets
    katalog,        \* the catalog run loaded
    pc,             \* where AuditPipeline.run / pruefe_feld stands
    sektionen_filter, \* AuditPipeline.sektionen_filter
    si,             \* index of the section the run is at
    fi,             \* index of the audit field the run is at
    ergebnis,       \* the Sektionsergebnis being filled
    sektionsergebnisse, \* the sections completed so far
    eskaliert,      \* the sections the run flagged for escalation
    checkpoint,     \* content of checkpoint_latest.json
    report,         \* what generiere_alle_berichte was given
    feld,           \* pruefe_feld's argument
    evidenz_nodes,  \* what the retriever returned
    evidenz_text,   \* <<>> before _format_evidence ran, <<its result>> after
    llm_response,   \* what llm.invoke did
    judgment,       \* llm_result: what _evaluate_with_llm returned
    val_warnings,   \* what validate_befund_structure returned
    befund,         \* what pruefe_feld returned
    error,          \* the exception that left pruefe_feld or run ("" when none)
    retrieve_calls, \* calls of the retriever in this pruefe_feld call
    llm_calls       \* calls of llm.invoke in this pruefe_feld call

(***************************************************************************)
(* Bounds of the model                                                     *)
(***************************************************************************)
MaxScores == 2      \* longest retrieval_scores list given to compute_confidence
MaxNodes == 2       \* most chunks the retriever returns (similarity_top_k)

(***************************************************************************)
(* Python helpers                                                          *)
(***************************************************************************)
PyNone == [t |-> "none"]
PyStr(s) == [t |-> "str", v |-> s]
PyNum(n) == [t |-> "num", v |-> n]
PyList(l) == [t |-> "list", v |-> l]
PyDict(d) == [t |-> "dict", v |-> d]

\* What a call yields: a value, or an exception that propagates.
Ok(v) == [exc |-> "", val |-> v]
Raise(e) == [exc |-> e, val |-> <<>>]
IsRaise(x) == x.exc # ""

\* dict.get(key, default) on a mapping with optional keys
Get(d, key, default) == IF key \in DOMAIN d THEN d[key] ELSE default

Range(s) == {s[i] : i \in DOMAIN s}

RECURSIVE Sum(_)
Sum(s) == IF s = <<>> THEN 0 ELSE Head(s) + Sum(Tail(s))

\* A float is an integer count of hundredths or thousandths, or NaN: json.loads
\* reads the literal NaN as float("nan").  Every comparison with NaN is
\* false and every sum with NaN is NaN.
NaN == -(1000 * 1000)
Lt(a, b) == a # NaN /\ b # NaN /\ a < b
Ge(a, b) == a # NaN /\ b # NaN /\ a >= b
\* max(a, b) and min(a, b) keep a unless b compares greater (smaller)
max(a, b) == IF Lt(a, b) THEN b ELSE a
min(a, b) == IF Lt(b, a) THEN b ELSE a
\* sum(s) of floats
FloatSum(s) == IF \E i \in DOMAIN s : s[i] = NaN THEN NaN ELSE Sum(s)

RECURSIVE Flatten(_, _)
\* sep.join(parts)
Flatten(parts, sep) ==
    IF parts = <<>> THEN <<>>
    ELSE IF Len(parts) = 1 THEN parts[1]
    ELSE parts[1] \o sep \o Flatten(Tail(parts), sep)

\* list(a_set) / iteration over a set of strings: the order follows the
\* process's hash seed; seed 0 and seed 1 give opposite orders.
RECURSIVE Ordered(_, _)
Ordered(S, seed) ==
    IF S = {} THEN <<>>
    ELSE LET x == CHOOSE y \in S : TRUE
             rest == Ordered(S \ {x}, seed)
         IN IF seed = 0 THEN <<x>> \o rest ELSE rest \o <<x>>

LowerChar(c) ==
    CASE c = "R" -> "r"
      [] c = "V" -> "v"
      [] c = "P" -> "p"
      [] OTHER -> c
\* str.lower()
Lower(s) == [i \in DOMAIN s |-> LowerChar(s[i])]

IsSpace(c) == c = " "

\* str.split(): the maximal runs of non-whitespace characters
RECURSIVE SplitFrom(_, _, _)
SplitFrom(s, i, cur) ==
    IF i > Len(s) THEN (IF cur = <<>> THEN <<>> ELSE <<cur>>)
    ELSE IF IsSpace(s[i])
         THEN (IF cur = <<>> THEN <<>> ELSE <<cur>>) \o SplitFrom(s, i + 1, <<>>)
         ELSE SplitFrom(s, i + 1, Append(cur, s[i]))
Split(s) == SplitFrom(s, 1, <<>>)

\* tok in text (substring test; the empty string is in every string)
Contains(text, tok) ==
    \E i \in 0 .. (Len(text) - Len(tok)) :
        \A j \in 1 .. Len(tok) : text[i + j] = tok[j]

(***************************************************************************)
(* compute_confidence                                                      *)
(***************************************************************************)
RETRIEVAL_SCORE_MIN == 35
CONFIDENCE_AUTO_REJECT == 400
CONFIDENCE_REVIEW_THRESHOLD == 700
SEKTION_REVIEW_ESCALATION == 30

\* round(n / d, 3) for a value n / d given in thousandths, n >= 0, d > 0.
\* The float sum of an exact half-thousandth lies a little above or below
\* it, so an exact tie rounds either way: tie is 0 (down) or 1 (up).
Round3(n, d, tie) ==
    LET q == n \div d
        r == n % d
    IN IF 2 * r < d THEN q
       ELSE IF 2 * r > d THEN q + 1
       ELSE q + tie

\* Each signal is a fraction <<numerator, denominator>> of 1.
RetrievalSignal(retrieval_scores) ==
    IF retrieval_scores # <<>>
    THEN LET total == FloatSum(retrieval_scores)
             full == 100 * Len(retrieval_scores)
         IN <<min(max(total, 0), full), full>>
    ELSE <<0, 1>>

CoverageSignalMutJoin(erwartete_evidenz, gefundene_quellen) ==
    IF erwartete_evidenz # <<>>
    THEN LET quellen_lower == Lower(Flatten(gefundene_quellen, <<>>))
             matched == Cardinality({i \in DOMAIN erwartete_evidenz :
                            \E tok \in Range(Split(Lower(erwartete_evidenz[i]))) :
                                Contains(quellen_lower, tok)})
         IN <<matched, Len(erwartete_evidenz)>>
    ELSE <<1, 2>>

CoverageSignal(erwartete_evidenz, gefundene_quellen) ==
    IF erwartete_evidenz # <<>>
    THEN LET quellen_lower == Lower(Flatten(gefundene_quellen, <<" ">>))
             matched == Cardinality({i \in DOMAIN erwartete_evidenz :
                            \E tok \in Range(Split(Lower(erwartete_evidenz[i]))) :
                                Contains(quellen_lower, tok)})
         IN <<matched, Len(erwartete_evidenz)>>
    ELSE <<1, 2>>

TypeSignal(erlaubte_typen, gefundene_typen) ==
    IF erlaubte_typen # {}
    THEN <<Cardinality(erlaubte_typen \cap gefundene_typen), Cardinality(erlaubte_typen)>>
    ELSE <<1, 1>>

LlmSignal(llm_confidence) == <<min(max(llm_confidence, 0), 100), 100>>

\* 0.30 * r + 0.30 * c + 0.20 * t + 0.20 * l, in thousandths, as a fraction
Weighted(r, c, t, l) ==
    IF r[1] = NaN \/ l[1] = NaN THEN <<NaN, 1>> ELSE
    <<300 * r[1] * c[2] * t[2] * l[2] + 300 * c[1] * r[2] * t[2] * l[2]
        + 200 * t[1] * r[2] * c[2] * l[2] + 200 * l[1] * r[2] * c[2] * t[2],
      r[2] * c[2] * t[2] * l[2]>>

\* llm_confidence is a float here; tie is the float rounding of Round3.
compute_confidence(retrieval_scores, erwartete_evidenz, gefundene_quellen, erlaubte_typen, gefundene_typen, llm_confidence, tie) ==
    LET w == Weighted(RetrievalSignal(retrieval_scores),
                      CoverageSignal(erwartete_evidenz, gefundene_quellen),
                      TypeSignal(erlaubte_typen, gefundene_typen),
                      LlmSignal(llm_confidence))
    IN IF w[1] = NaN THEN NaN ELSE Round3(w[1], w[2], tie)

(***************************************************************************)
(* validate_befund_structure                                               *)
(***************************************************************************)
\* bool(x) of a tagged value whose str payload is a character tuple
Truthy(x) ==
    CASE x.t = "none" -> FALSE
      [] x.t = "num" -> x.v # 0
      [] OTHER -> Len(x.v) > 0

HasPlaceholderMutAnyBrace(text) == \E i \in DOMAIN text : text[i] = "{"

\* re.search(r"\{[^}]*\}", text): an opening brace with a closing brace after it
HasPlaceholder(text) ==
    \E i \in DOMAIN text :
        /\ text[i] = "{"
        /\ \E j \in (i + 1) .. Len(text) :
              /\ text[j] = "}"
              /\ \A k \in (i + 1) .. (j - 1) : text[k] # "}"

\* set(x): the elements of a list, the characters of a str; None and numbers
\* are not iterable
PySet(x) ==
    CASE x.t = "list" -> Ok(Range(x.v))
      [] x.t = "str" -> Ok({<<x.v[i]>> : i \in DOMAIN x.v})
      [] OTHER -> Raise("TypeError")

PhantomQuellenMutSwapped(agent_quellen, retrieved_sources) == retrieved_sources \ agent_quellen

PhantomQuellen(agent_quellen, retrieved_sources) == agent_quellen \ retrieved_sources

\* check 1: the phantom-citation warning, ', '.join over the set
PhantomWarnings(agent_quellen, retrieved_sources) ==
    LET phantom_quellen == PhantomQuellen(agent_quellen, retrieved_sources)
    IN IF phantom_quellen # {}
       THEN <<[kind |-> "phantom",
               text |-> Flatten(Ordered(phantom_quellen, hashseed), <<",", " ">>)]>>
       ELSE <<>>

\* check 2 for one field: text = llm_result.get(field_name) or ""
PlaceholderWarnings(d, field_name) ==
    LET got == Get(d, field_name, PyNone)
        text == IF Truthy(got) THEN got ELSE PyStr(<<>>)
    IN IF text.t # "str" THEN Raise("TypeError")
       ELSE IF HasPlaceholder(text.v)
            THEN Ok(<<[field |-> field_name, kind |-> "placeholder"]>>)
            ELSE Ok(<<>>)

VerdictWarningsMutNoCheck4(d) ==
    LET bewertung == Get(d, "bewertung", PyStr(""))
        textstellen == Get(d, "belegte_textstellen", PyList(<<>>))
        mangel_text == Get(d, "mangel_text", PyNone)
        is(v) == bewertung = PyStr(v)
    IN (IF (is("konform") \/ is("teilkonform") \/ is("nicht_konform")) /\ ~Truthy(textstellen)
        THEN <<[bewertung |-> bewertung.v, kind |-> "ohne_textstellen"]>> ELSE <<>>)
       \o (IF is("nicht_konform") /\ ~Truthy(mangel_text)
           THEN <<[kind |-> "kein_mangel_text"]>> ELSE <<>>)

VerdictWarningsMutNoCheck5(d) ==
    LET bewertung == Get(d, "bewertung", PyStr(""))
        textstellen == Get(d, "belegte_textstellen", PyList(<<>>))
        mangel_text == Get(d, "mangel_text", PyNone)
        is(v) == bewertung = PyStr(v)
    IN (IF (is("konform") \/ is("teilkonform") \/ is("nicht_konform")) /\ ~Truthy(textstellen)
        THEN <<[bewertung |-> bewertung.v, kind |-> "ohne_textstellen"]>> ELSE <<>>)
       \o (IF is("konform") /\ Truthy(mangel_text)
           THEN <<[kind |-> "mangel_bei_konform"]>> ELSE <<>>)

VerdictWarningsMutNoTeilkonform(d) ==
    LET bewertung == Get(d, "bewertung", PyStr(""))
        textstellen == Get(d, "belegte_textstellen", PyList(<<>>))
        mangel_text == Get(d, "mangel_text", PyNone)
        is(v) == bewertung = PyStr(v)
    IN (IF (is("konform") \/ is("nicht_konform")) /\ ~Truthy(textstellen)
        THEN <<[bewertung |-> bewertung.v, kind |-> "ohne_textstellen"]>> ELSE <<>>)
       \o (IF is("konform") /\ Truthy(mangel_text)
           THEN <<[kind |-> "mangel_bei_konform"]>> ELSE <<>>)
       \o (IF is("nicht_konform") /\ ~Truthy(mangel_text)
           THEN <<[kind |-> "kein_mangel_text"]>> ELSE <<>>)

\* checks 3 to 5
VerdictWarnings(d) ==
    LET bewertung == Get(d, "bewertung", PyStr(""))
        textstellen == Get(d, "belegte_textstellen", PyList(<<>>))
        mangel_text == Get(d, "mangel_text", PyNone)
        is(v) == bewertung = PyStr(v)
    IN (IF (is("konform") \/ is("teilkonform") \/ is("nicht_konform")) /\ ~Truthy(textstellen)
        THEN <<[bewertung |-> bewertung.v, kind |-> "ohne_textstellen"]>> ELSE <<>>)
       \o (IF is("konform") /\ Truthy(mangel_text)
           THEN <<[kind |-> "mangel_bei_konform"]>> ELSE <<>>)
       \o (IF is("nicht_konform") /\ ~Truthy(mangel_text)
           THEN <<[kind |-> "kein_mangel_text"]>> ELSE <<>>)

\* The list of warnings, or Raise(e) when a statement of the function raises.
validate_befund_structure(llm_result, retrieved_sources, regulatorik) ==
    IF llm_result.t # "dict" THEN Raise("AttributeError")
    ELSE
    LET d == llm_result.v
        agent_quellen == PySet(Get(d, "quellen", PyList(<<>>)))
    IN IF IsRaise(agent_quellen) THEN agent_quellen
       ELSE
       LET w1 == PhantomWarnings(agent_quellen.val, retrieved_sources)
           w2a == PlaceholderWarnings(d, "begruendung")
           w2b == PlaceholderWarnings(d, "mangel_text")
       IN IF IsRaise(w2a) THEN w2a
          ELSE IF IsRaise(w2b) THEN w2b
          ELSE Ok(w1 \o w2a.val \o w2b.val \o VerdictWarnings(d))


(***************************************************************************)
(* extract_json                                                            *)
(*                                                                         *)
(* A raw answer is a sequence of segments:                                 *)
(*   [k |-> "prose"]            text without braces or backticks           *)
(*   [k |-> "ws"]               whitespace                                 *)
(*   [k |-> "fence", tag |-> g] three backticks followed by the tag g      *)
(*   [k |-> "json", val, braces, spans] the text of one JSON value val;    *)
(*                              braces                                     *)
(*                              are the brace characters of that text, in  *)
(*                              order, those inside its strings included   *)
(*                              order, those inside its strings included;  *)
(*                              spans are the pairs of braces between      *)
(*                              which the text is itself a JSON object     *)
(***************************************************************************)
IsBrace(c) == c = "{" \/ c = "}"
BracesIn(x) == IF x.t = "str" THEN SelectSeq(x.v, IsBrace) ELSE <<>>

\* the order in which the text of an object shows its keys
KeyOrder ==
    <<"bewertung", "begruendung", "belegte_textstellen", "mangel_text", "empfehlungen",
      "quellen", "confidence_self", "details">>
KeysOf(v) == LET has(key) == key \in DOMAIN v.v IN SelectSeq(KeyOrder, has)

\* the brace characters of the text of a value: those of its strings and,
\* for an object, its own pair around those of its members
RECURSIVE BracesOf(_)
BracesOf(v) ==
    CASE v.t = "str" -> BracesIn(v)
      [] v.t = "list" -> Flatten([i \in DOMAIN v.v |-> SelectSeq(v.v[i], IsBrace)], <<>>)
      [] v.t = "dict" ->
            <<"{">> \o Flatten([i \in DOMAIN KeysOf(v) |-> BracesOf(v.v[KeysOf(v)[i]])], <<>>)
                   \o <<"}">>
      [] OTHER -> <<>>

\* the objects in the text of a value, each with the places of its braces
\* counted from off
RECURSIVE ObjectSpans(_, _)
ObjectSpans(v, off) ==
    IF v.t # "dict" THEN {}
    ELSE LET keys == KeysOf(v)
             before(i) == Sum([j \in 1 .. (i - 1) |-> Len(BracesOf(v.v[keys[j]]))])
         IN {[first |-> off + 1, last |-> off + Len(BracesOf(v)), val |-> v]}
            \cup UNION {ObjectSpans(v.v[keys[i]], off + 1 + before(i)) : i \in DOMAIN keys}

\* json.dumps of a value
Dumps(v) == [k |-> "json", val |-> v, braces |-> BracesOf(v), spans |-> ObjectSpans(v, 0)]

RECURSIVE LStrip(_)
LStrip(raw) == IF raw # <<>> /\ Head(raw).k = "ws" THEN LStrip(Tail(raw)) ELSE raw
RECURSIVE RStrip(_)
RStrip(raw) ==
    IF raw # <<>> /\ raw[Len(raw)].k = "ws" THEN RStrip(SubSeq(raw, 1, Len(raw) - 1)) ELSE raw
\* str.strip()
Strip(raw) == RStrip(LStrip(raw))

\* json.loads: the text must be exactly one JSON value
json_loads(text) ==
    LET body == Strip(text)
    IN IF Len(body) = 1 /\ body[1].k = "json" THEN Ok(body[1].val)
       ELSE Raise("JSONDecodeError")

IsObjectText(seg) == seg.k = "json" /\ seg.val.t = "dict"

\* the index of the first segment after i that is not whitespace (0: none)
NextNonWs(raw, i) ==
    LET later == {j \in (i + 1) .. Len(raw) : raw[j].k # "ws"}
    IN IF later = {} THEN 0 ELSE CHOOSE j \in later : \A m \in later : j <= m

\* _JSON_BLOCK_RE.search: the leftmost fence (bare or tagged json) that is
\* followed by an opening brace, up to the first closing brace that is
\* followed by a fence; <<>> when there is no match, else <<group(1)>>
JsonBlockSearch(raw) ==
    LET ends(a) == {b \in a .. Len(raw) :
                        /\ IsObjectText(raw[b])
                        /\ NextNonWs(raw, b) # 0
                        /\ raw[NextNonWs(raw, b)].k = "fence"}
        opens == {i \in DOMAIN raw :
                        /\ raw[i].k = "fence"
                        /\ raw[i].tag \in {"", "json"}
                        /\ NextNonWs(raw, i) # 0
                        /\ IsObjectText(raw[NextNonWs(raw, i)])
                        /\ ends(NextNonWs(raw, i)) # {}}
    IN IF opens = {} THEN <<>>
       ELSE LET i == CHOOSE x \in opens : \A y \in opens : x <= y
                a == NextNonWs(raw, i)
                b == CHOOSE x \in ends(a) : \A y \in ends(a) : x <= y
            IN <<SubSeq(raw, a, b)>>

\* the brace characters of the whole text, each with its segment and place
RECURSIVE BraceList(_, _)
BraceList(raw, i) ==
    IF i > Len(raw) THEN <<>>
    ELSE (IF raw[i].k = "json"
          THEN [j \in DOMAIN raw[i].braces |-> [seg |-> i, pos |-> j, ch |-> raw[i].braces[j]]]
          ELSE <<>>) \o BraceList(raw, i + 1)

\* how many "{...}" groups without inner braces follow one another from place i
RECURSIVE FlatGroups(_, _)
FlatGroups(B, i) ==
    IF i + 1 <= Len(B) /\ B[i].ch = "{" /\ B[i + 1].ch = "}"
    THEN 1 + FlatGroups(B, i + 2) ELSE 0

\* _JSON_OBJECT_RE.search: the leftmost opening brace from which the text has
\* flat groups only and then a closing brace; <<>> or <<first, last>> braces
JsonObjectSearch(raw) ==
    LET B == BraceList(raw, 1)
        closing(p) == p + 1 + 2 * FlatGroups(B, p + 1)
        starts == {p \in DOMAIN B :
                        /\ B[p].ch = "{"
                        /\ closing(p) <= Len(B)
                        /\ B[closing(p)].ch = "}"}
    IN IF starts = {} THEN <<>>
       ELSE LET p == CHOOSE x \in starts : \A y \in starts : x <= y
            IN <<B[p], B[closing(p)]>>

\* json.loads of the text between two braces: JSON only when that is the
\* text of one object, the whole value or an object inside it
LoadsMatch(raw, m) ==
    LET hit == IF m[1].seg = m[2].seg /\ raw[m[1].seg].k = "json"
               THEN {s \in raw[m[1].seg].spans : s.first = m[1].pos /\ s.last = m[2].pos}
               ELSE {}
    IN IF hit # {} THEN Ok((CHOOSE s \in hit : TRUE).val) ELSE Raise("JSONDecodeError")

\* raw is response.content: a str (its segments) or something else
extract_json(raw) ==
    IF raw.t # "str" THEN Raise("AttributeError")     \* raw.strip()
    ELSE
    LET text == Strip(raw.v)
        direct == json_loads(text)
        block == JsonBlockSearch(text)
        fromBlock == IF block = <<>> THEN Raise("JSONDecodeError") ELSE json_loads(block[1])
        object == JsonObjectSearch(text)
        fromObject == IF object = <<>> THEN Raise("JSONDecodeError") ELSE LoadsMatch(text, object)
    IN IF ~IsRaise(direct) THEN direct
       ELSE IF ~IsRaise(fromBlock) THEN fromBlock
       ELSE IF ~IsRaise(fromObject) THEN fromObject
       ELSE Raise("JSONDecodeError")


(***************************************************************************)
(* PrueferAgent                                                            *)
(***************************************************************************)
SrcUnbekannt == <<"u", "n", "b">>      \* the default source name "unbekannt"

\* getattr(n, "score", 0.0) or 0.0
NodeScore(n) == IF n.score.t = "none" THEN 0 ELSE n.score.v
\* (n.metadata or {}).get(key, default)
NodeSource(n) == Get(n.metadata, "source", SrcUnbekannt)
NodeType(n) == Get(n.metadata, "input_type", "unbekannt")

RECURSIVE MaxOf(_)
MaxOf(s) == IF Len(s) = 1 THEN s[1] ELSE max(s[1], MaxOf(Tail(s)))

IsGoodMutLowerGate(n, retrieval_score_min) == Ge(NodeScore(n), 20)

\* s >= self.retrieval_score_min
IsGood(n, retrieval_score_min) == Ge(NodeScore(n), retrieval_score_min)

GoodNodes(nodes) ==
    LET keep(n) == IsGood(n, RETRIEVAL_SCORE_MIN) IN SelectSeq(nodes, keep)

\* "KEINE EVIDENZ GEFUNDEN ...", the text for no chunk
KeineEvidenz == [k |-> "keine_evidenz"]

\* the lines of one chunk: "--- Evidenz i: source [input_type] (Relevanz:
\* score) ---", then the content or the screenshot hint
EvidenzBlock(i, node) ==
    [i |-> i, source |-> NodeSource(node), input_type |-> NodeType(node),
     score_str |-> IF node.score.t = "num" /\ node.score.v # 0 THEN node.score ELSE PyNone,
     body |-> IF NodeType(node) = "screenshot" THEN "screenshot_hint" ELSE "content"]

\* _format_evidence: the marker for no chunk, else the "=== GEFUNDENE
\* EVIDENZ ===" header followed by the blocks of the chunks the soft filter
\* lets through
format_evidence(nodes, prueffeld) ==
    IF nodes = <<>> THEN KeineEvidenz
    ELSE LET allowed_types == Range(Get(prueffeld, "input_typen", <<>>))
             blocks == [i \in DOMAIN nodes |-> EvidenzBlock(i, nodes[i])]
             kept(b) == ~(allowed_types # {} /\ b.input_type \notin allowed_types)
         IN [k |-> "evidenz", blocks |-> SelectSeq(blocks, kept)]

\* the Befund of the retrieval quality gate
GateBefund(prueffeld, scores) ==
    [prueffeld_id |-> prueffeld.id, frage |-> prueffeld.frage,
     bewertung |-> "nicht_pruefbar",
     begruendung |-> [t |-> "gate", best |-> IF scores # <<>> THEN MaxOf(scores) ELSE 0,
                      threshold |-> RETRIEVAL_SCORE_MIN],
     belegte_textstellen |-> PyList(<<>>), empfehlungen |-> PyList(<<>>),
     mangel_text |-> PyNone, schweregrad |-> Get(prueffeld, "schweregrad", "None"),
     quellen |-> PyList(<<>>), confidence |-> 0, review_erforderlich |-> TRUE,
     validierungshinweise |-> <<[kind |-> "gate"]>>]

\* the judgment _evaluate_with_llm returns in place of an exception;
\* prefix stands for the fixed words before the error description
Degraded(prefix, description) ==
    PyDict([bewertung |-> PyStr("nicht_pruefbar"),
            begruendung |-> PyStr(prefix \o description),
            belegte_textstellen |-> PyList(<<>>),
            mangel_text |-> PyNone,
            empfehlungen |-> PyList(<<>>),
            quellen |-> PyList(<<>>),
            confidence_self |-> PyNum(0)])

PrefixParse == <<"P", ":">>     \* "LLM-Antwort konnte nicht als JSON geparst werden: "
PrefixError == <<"F", ":">>     \* "Fehler bei der LLM-Bewertung: "
JsonErrorText == <<"K">>        \* str(e) of the JSONDecodeError

evaluate_with_llmMutNoCatch(response) ==
    IF response.kind = "raise" THEN Raise("Exception")
    ELSE LET parsed == extract_json(response.content)
         IN IF IsRaise(parsed) THEN parsed ELSE Ok(parsed.val)

\* _evaluate_with_llm: response is what self.llm.invoke does, an exception
\* with its message or a message object with its content
evaluate_with_llm(response) ==
    IF response.kind = "raise" THEN Ok(Degraded(PrefixError, response.message))
    ELSE LET parsed == extract_json(response.content)
         IN IF parsed.exc = "JSONDecodeError" THEN Ok(Degraded(PrefixParse, JsonErrorText))
            ELSE IF IsRaise(parsed) THEN Ok(Degraded(PrefixError, <<>>))
            ELSE Ok(parsed.val)

DecisionPolicyMutSilentBand(confidence, bewertung_str, warnings) ==
    LET rejected == Lt(confidence, CONFIDENCE_AUTO_REJECT)
        flagged == ~rejected /\ Lt(confidence, CONFIDENCE_REVIEW_THRESHOLD)
        appended == IF rejected
                    THEN Append(warnings, [confidence |-> confidence, kind |-> "auto_reject"])
                    ELSE warnings
    IN [bewertung_str |-> IF rejected THEN PyStr("nicht_pruefbar") ELSE bewertung_str,
        review_erforderlich |-> (rejected \/ flagged) \/ appended # <<>>,
        val_warnings |-> appended]

DecisionPolicyMutInclusiveReject(confidence, bewertung_str, warnings) ==
    IF ~Lt(CONFIDENCE_AUTO_REJECT, confidence) /\ confidence # NaN
    THEN [bewertung_str |-> PyStr("nicht_pruefbar"), review_erforderlich |-> TRUE,
          val_warnings |-> Append(warnings, [confidence |-> confidence, kind |-> "auto_reject"])]
    ELSE IF Lt(confidence, CONFIDENCE_REVIEW_THRESHOLD)
    THEN [bewertung_str |-> bewertung_str, review_erforderlich |-> TRUE,
          val_warnings |-> Append(warnings, [confidence |-> confidence, kind |-> "review"])]
    ELSE [bewertung_str |-> bewertung_str, review_erforderlich |-> warnings # <<>>,
          val_warnings |-> warnings]

DecisionPolicyMutNoBand(confidence, bewertung_str, warnings) ==
    IF Lt(confidence, CONFIDENCE_AUTO_REJECT)
    THEN [bewertung_str |-> PyStr("nicht_pruefbar"), review_erforderlich |-> TRUE,
          val_warnings |-> Append(warnings, [confidence |-> confidence, kind |-> "auto_reject"])]
    ELSE [bewertung_str |-> bewertung_str, review_erforderlich |-> warnings # <<>>,
          val_warnings |-> warnings]

DecisionPolicyMutInclusiveReview(confidence, bewertung_str, warnings) ==
    IF Lt(confidence, CONFIDENCE_AUTO_REJECT)
    THEN [bewertung_str |-> PyStr("nicht_pruefbar"), review_erforderlich |-> TRUE,
          val_warnings |-> Append(warnings, [confidence |-> confidence, kind |-> "auto_reject"])]
    ELSE IF ~Lt(CONFIDENCE_REVIEW_THRESHOLD, confidence) /\ confidence # NaN
    THEN [bewertung_str |-> bewertung_str, review_erforderlich |-> TRUE,
          val_warnings |-> Append(warnings, [confidence |-> confidence, kind |-> "review"])]
    ELSE [bewertung_str |-> bewertung_str, review_erforderlich |-> warnings # <<>>,
          val_warnings |-> warnings]

DecisionPolicyMutNoForcedReview(confidence, bewertung_str, warnings) ==
    IF Lt(confidence, CONFIDENCE_AUTO_REJECT)
    THEN [bewertung_str |-> PyStr("nicht_pruefbar"), review_erforderlich |-> TRUE,
          val_warnings |-> Append(warnings, [confidence |-> confidence, kind |-> "auto_reject"])]
    ELSE IF Lt(confidence, CONFIDENCE_REVIEW_THRESHOLD)
    THEN [bewertung_str |-> bewertung_str, review_erforderlich |-> TRUE,
          val_warnings |-> Append(warnings, [confidence |-> confidence, kind |-> "review"])]
    ELSE [bewertung_str |-> bewertung_str, review_erforderlich |-> FALSE,
          val_warnings |-> warnings]

\* step 7 of pruefe_feld: warnings is the validator's list, which the
\* confidence branches append to before "if val_warnings" reads it
DecisionPolicy(confidence, bewertung_str, warnings) ==
    LET rejected == Lt(confidence, CONFIDENCE_AUTO_REJECT)
        flagged == ~rejected /\ Lt(confidence, CONFIDENCE_REVIEW_THRESHOLD)
        appended == IF rejected
                    THEN Append(warnings, [confidence |-> confidence, kind |-> "auto_reject"])
                    ELSE IF flagged
                    THEN Append(warnings, [confidence |-> confidence, kind |-> "review"])
                    ELSE warnings
    IN [bewertung_str |-> IF rejected THEN PyStr("nicht_pruefbar") ELSE bewertung_str,
        review_erforderlich |-> (rejected \/ flagged) \/ appended # <<>>,
        val_warnings |-> appended]

\* Bewertung(value): the enum member, or ValueError
BewertungOf(value) ==
    IF value.t = "str" /\ value.v \in {"konform", "teilkonform", "nicht_konform", "nicht_pruefbar"}
    THEN Ok(value.v) ELSE Raise("ValueError")

\* Steps 3 and 5 to 7 of pruefe_feld, after _evaluate_with_llm returned
\* result: the Befund, or the exception that leaves pruefe_feld.  warnings
\* is what validate_befund_structure returned (<<>> when it was not reached).
Judge(prueffeld, nodes, result, tie) ==
    LET good_nodes == GoodNodes(nodes)
        retrieved_sources == {NodeSource(good_nodes[i]) : i \in DOMAIN good_nodes}
        retrieved_types == {NodeType(good_nodes[i]) : i \in DOMAIN good_nodes}
        validated == validate_befund_structure(result, retrieved_sources, "gwg")
    IN IF IsRaise(validated) THEN [exc |-> validated.exc, warnings |-> <<>>]
       ELSE
       LET d == result.v
           good_scores == [i \in DOMAIN good_nodes |-> NodeScore(good_nodes[i])]
           llm_confidence == Get(d, "confidence_self", PyNum(50))
       IN IF llm_confidence.t # "num"
          THEN [exc |-> "TypeError", warnings |-> validated.val]
          ELSE
          LET confidence == compute_confidence(good_scores,
                                Get(prueffeld, "erwartete_evidenz", <<>>),
                                Ordered(retrieved_sources, hashseed),
                                Range(Get(prueffeld, "input_typen", <<>>)),
                                retrieved_types, llm_confidence.v, tie)
              decided == DecisionPolicy(confidence,
                                Get(d, "bewertung", PyStr("nicht_pruefbar")), validated.val)
              bewertung == BewertungOf(decided.bewertung_str)
          IN IF IsRaise(bewertung)
             THEN [exc |-> bewertung.exc, warnings |-> validated.val]
             ELSE [exc |-> "", warnings |-> validated.val,
                   val |-> [prueffeld_id |-> prueffeld.id, frage |-> prueffeld.frage,
                            bewertung |-> bewertung.val,
                            begruendung |-> Get(d, "begruendung", PyStr(<<>>)),
                            belegte_textstellen |-> Get(d, "belegte_textstellen", PyList(<<>>)),
                            empfehlungen |-> Get(d, "empfehlungen", PyList(<<>>)),
                            mangel_text |-> Get(d, "mangel_text", PyNone),
                            schweregrad |-> Get(prueffeld, "schweregrad", "None"),
                            quellen |-> Get(d, "quellen", PyList(<<>>)),
                            confidence |-> confidence,
                            review_erforderlich |-> decided.review_erforderlich,
                            validierungshinweise |-> decided.val_warnings]]


(***************************************************************************)
(* Sektionsergebnis and AuditPipeline                                      *)
(***************************************************************************)
\* sum(1 for b in befunde if b.review_erforderlich)
ReviewCount(befunde) == Cardinality({i \in DOMAIN befunde : befunde[i].review_erforderlich})

kritische_befundeMutOnlyNichtKonform(befunde) ==
    LET kritisch(b) == b.bewertung = "nicht_konform" IN SelectSeq(befunde, kritisch)

\* Sektionsergebnis.kritische_befunde
kritische_befunde(befunde) ==
    LET kritisch(b) == b.bewertung \in {"nicht_konform", "teilkonform"}
    IN SelectSeq(befunde, kritisch)

review_quoteMutCountsAccepted(befunde) ==
    IF befunde = <<>> THEN <<0, 1>>
    ELSE <<Len(befunde) - ReviewCount(befunde), Len(befunde)>>

\* Sektionsergebnis.review_quote: the float n / d as the pair <<n, d>>,
\* 0.0 as <<0, 1>>
review_quote(befunde) ==
    IF befunde = <<>> THEN <<0, 1>> ELSE <<ReviewCount(befunde), Len(befunde)>>

EskalationMutStrict(befunde) ==
    LET quote == review_quote(befunde)
    IN 100 * quote[1] > SEKTION_REVIEW_ESCALATION * quote[2]

\* ergebnis.review_quote >= SEKTION_REVIEW_ESCALATION
Eskalation(befunde) ==
    LET quote == review_quote(befunde)
    IN 100 * quote[1] >= SEKTION_REVIEW_ESCALATION * quote[2]

\* {**prueffeld, "rechtsgrundlagen": sektion.get("rechtsgrundlagen", [])}
FeldKopie(prueffeld, sektion) ==
    [k \in DOMAIN prueffeld \cup {"rechtsgrundlagen"} |->
        IF k = "rechtsgrundlagen" THEN Get(sektion, "rechtsgrundlagen", <<>>)
        ELSE prueffeld[k]]

Begruendung200MutWhole(b) ==
    IF b.begruendung.t \in {"none", "num"} THEN Raise("TypeError") ELSE Ok(b.begruendung)

\* b.begruendung[:200]: None and numbers cannot be sliced; the text of the
\* quality gate is longer than 200 characters and loses its last sentence
Begruendung200(b) ==
    IF b.begruendung.t \in {"none", "num"} THEN Raise("TypeError")
    ELSE IF b.begruendung.t = "gate" THEN Ok([b.begruendung EXCEPT !.t = "gate_200"])
    ELSE LET text == b.begruendung.v
         IN Ok([b.begruendung EXCEPT !.v = SubSeq(text, 1, min(Len(text), 200))])

\* the data _save_checkpoint builds, or the exception building it raises
CheckpointData(sektionen) ==
    IF \E i \in DOMAIN sektionen : \E j \in DOMAIN sektionen[i].befunde :
            IsRaise(Begruendung200(sektionen[i].befunde[j]))
    THEN Raise("TypeError")
    ELSE Ok([i \in DOMAIN sektionen |->
            [id |-> sektionen[i].sektion_id, titel |-> sektionen[i].titel,
             befunde |-> [j \in DOMAIN sektionen[i].befunde |->
                LET b == sektionen[i].befunde[j]
                IN [id |-> b.prueffeld_id, bewertung |-> b.bewertung,
                    confidence |-> b.confidence,
                    review_erforderlich |-> b.review_erforderlich,
                    begruendung |-> Begruendung200(b).val]]]])


(***************************************************************************)
(* Input domains                                                           *)
(***************************************************************************)
SrcRa == <<"r", "a", ".", "P">>        \* "ra.P"
SrcVz == <<"V", "z", ".", "x">>        \* "Vz.x"
SrcPhantom == <<"p", "h">>             \* a name no document has
KwRa == <<"R", "a">>                   \* "Ra"
KwVz == <<"v", "z">>                   \* "vz"
KwTwo == <<"z", "z", " ", "R", "a">>   \* "zz Ra": two tokens
KwAcross == <<"p", "v">>               \* "pv": spans the end of ra.P and the start of Vz.x
KwBlank == <<" ">>                     \* no token at all

BoundedSeq(S, n) == UNION {[1 .. k -> S] : k \in 0 .. n}

ConfScores == {-50, 35, 90, 150, NaN}
ConfSelf == {-20, 0, 50, 90, 150, NaN}
ConfEvidenz == {<<>>, <<KwRa>>, <<KwRa, KwVz>>, <<KwTwo, KwBlank>>, <<KwAcross>>,
                <<KwRa, KwAcross, KwVz>>}
ConfQuellen == {<<>>, <<SrcRa>>, <<SrcRa, SrcVz>>}
ConfErlaubt == {{}, {"pdf"}, {"pdf", "excel"}, {"pdf", "excel", "interview"}}
ConfGefunden == {{}, {"pdf"}, {"excel", "pdf"}}

ConfInputs ==
    [scores : BoundedSeq(ConfScores, MaxScores), evidenz : ConfEvidenz,
     quellen : ConfQuellen, erlaubt : ConfErlaubt, gefunden : ConfGefunden,
     self : ConfSelf, tie : {0, 1}]

\* The judgments the model may return: every key may be absent.
ABSENT == [t |-> "absent"]
MakeDict(r) == PyDict([k \in {x \in DOMAIN r : r[x] # ABSENT} |-> r[k]])

TxtOk == <<"o", "k">>
TxtPlaceholder == <<"{", "x", "}">>
TxtBraces == <<"}", "{">>

ValBewertung == {ABSENT, PyNone, PyStr("konform"), PyStr("teilkonform"),
                 PyStr("nicht_konform"), PyStr("nicht_pruefbar"), PyStr("vielleicht")}
ValBegruendung == {ABSENT, PyNone, PyStr(TxtOk), PyStr(TxtPlaceholder), PyStr(TxtBraces)}
ValTextstellen == {ABSENT, PyNone, PyList(<<>>), PyList(<<TxtOk>>)}
ValMangel == {ABSENT, PyNone, PyStr(<<>>), PyStr(TxtOk), PyStr(TxtPlaceholder)}
ValQuellen == {ABSENT, PyNone, PyList(<<>>), PyList(<<SrcRa>>), PyList(<<SrcPhantom>>),
               PyList(<<SrcRa, SrcPhantom, SrcRa>>), PyList(<<SrcPhantom, SrcVz>>)}
ValRetrieved == {{}, {SrcRa}, {SrcRa, SrcVz}}

ValJudgments ==
    {MakeDict(r) : r \in [bewertung : ValBewertung, begruendung : ValBegruendung,
                          belegte_textstellen : ValTextstellen, mangel_text : ValMangel,
                          quellen : ValQuellen]}
    \cup {PyList(<<>>), PyNone}

ValInputs == [llm_result : ValJudgments, retrieved_sources : ValRetrieved]

\* Retrieved chunks: a relevance score (or None) and the metadata of the
\* document the chunk comes from
MetaRa == [source |-> SrcRa, input_type |-> "pdf"]
MetaVz == [source |-> SrcVz, input_type |-> "excel"]
MetaBare == [page |-> 1]               \* neither source nor input_type
Node(score, metadata) == [score |-> score, metadata |-> metadata]

NodeSet ==
    {Node(PyNone, MetaRa), Node(PyNum(20), MetaRa), Node(PyNum(34), MetaRa),
     Node(PyNum(35), MetaRa), Node(PyNum(90), MetaRa), Node(PyNum(35), MetaVz),
     Node(PyNum(90), MetaVz), Node(PyNum(90), MetaBare)}
FeldNodes == BoundedSeq(NodeSet, MaxNodes)
PipeNodes ==
    {<<>>, <<Node(PyNum(20), MetaRa)>>, <<Node(PyNum(90), MetaRa)>>,
     <<Node(PyNum(90), MetaVz), Node(PyNum(20), MetaRa)>>}

\* The catalog: two sections, three audit fields
PfA == [id |-> "F1", frage |-> "q1", erwartete_evidenz |-> <<KwRa, KwVz>>,
        input_typen |-> <<"pdf", "excel">>, schweregrad |-> "wesentlich"]
PfB == [id |-> "F2", frage |-> "q2"]
PfC == [id |-> "F3", frage |-> "q3", erwartete_evidenz |-> <<KwRa>>,
        schweregrad |-> "gering"]
SektionA == [id |-> "S1", titel |-> "t1", rechtsgrundlagen |-> <<"GwG">>,
             prueffelder |-> <<PfA, PfB>>]
SektionB == [id |-> "S2", titel |-> "t2", prueffelder |-> <<PfC>>]
Katalog == [katalog_version |-> "1", pruefsektionen |-> <<SektionA, SektionB>>]
Filters == {<<>>, <<"S1">>, <<"S2">>}

\* What llm.invoke does
MsgTimeout == <<"t">>
MsgApiError == <<"{", "e", "}">>       \* an API error that quotes a JSON body
Raised(message) == [kind |-> "raise", message |-> message]
Answer(content) == [kind |-> "message", content |-> content]
Prose == [k |-> "prose"]
Ws == [k |-> "ws"]
Fence(tag) == [k |-> "fence", tag |-> tag]

Profiles ==
    {[begruendung |-> PyStr(TxtOk), belegte_textstellen |-> PyList(<<TxtOk>>),
      mangel_text |-> PyNone, quellen |-> PyList(<<SrcRa>>)],
     [begruendung |-> PyStr(TxtOk), belegte_textstellen |-> PyList(<<TxtOk>>),
      mangel_text |-> PyStr(TxtOk), quellen |-> PyList(<<>>)],
     [begruendung |-> PyStr(TxtOk), belegte_textstellen |-> PyList(<<>>),
      mangel_text |-> ABSENT, quellen |-> ABSENT],
     [begruendung |-> PyStr(TxtPlaceholder), belegte_textstellen |-> PyList(<<TxtOk>>),
      mangel_text |-> PyNone, quellen |-> PyList(<<SrcPhantom, SrcVz>>)]}
FeldBewertung == {ABSENT, PyStr("konform"), PyStr("teilkonform"), PyStr("nicht_konform"),
                  PyStr("nicht_pruefbar"), PyStr("vielleicht")}
FeldSelf == {ABSENT, PyNum(0), PyNum(65), PyNum(90), PyNum(150), PyNum(NaN)}
Judgment(bewertung, profile, self) ==
    MakeDict([bewertung |-> bewertung, begruendung |-> profile.begruendung,
              belegte_textstellen |-> profile.belegte_textstellen,
              mangel_text |-> profile.mangel_text, quellen |-> profile.quellen,
              confidence_self |-> self])
FeldJudgments ==
    {Judgment(b, p, c) : b \in FeldBewertung, p \in Profiles, c \in FeldSelf}

JClean == Judgment(PyStr("konform"), CHOOSE p \in Profiles : p.quellen = PyList(<<SrcRa>>), PyNum(90))
JBraces == MakeDict([bewertung |-> PyStr("konform"), begruendung |-> PyStr(TxtBraces),
                     belegte_textstellen |-> PyList(<<TxtOk>>), mangel_text |-> PyNone,
                     quellen |-> PyList(<<SrcRa>>), confidence_self |-> PyNum(90)])
JNullVerdict == MakeDict([bewertung |-> PyNone, confidence_self |-> PyNum(90)])
JNullQuellen == MakeDict([bewertung |-> PyStr("konform"), quellen |-> PyNone])
JNullSelf == MakeDict([bewertung |-> PyStr("konform"), confidence_self |-> PyNone])
JNullBegruendung == MakeDict([bewertung |-> PyStr("teilkonform"), begruendung |-> PyNone,
                              belegte_textstellen |-> PyList(<<TxtOk>>),
                              confidence_self |-> PyNum(90)])
\* a deficiency text that is the empty string
JEmptyMangel(bewertung) ==
    MakeDict([bewertung |-> PyStr(bewertung), begruendung |-> PyStr(TxtOk),
              belegte_textstellen |-> PyList(<<TxtOk>>), mangel_text |-> PyStr(<<>>),
              quellen |-> PyList(<<SrcRa>>), confidence_self |-> PyNum(90)])

\* a justification of 201 characters
JLong == MakeDict([bewertung |-> PyStr("konform"), begruendung |-> PyStr([i \in 1..201 |-> "a"]),
                   belegte_textstellen |-> PyList(<<TxtOk>>), mangel_text |-> PyNone,
                   quellen |-> PyList(<<SrcRa>>), confidence_self |-> PyNum(90)])

\* Failures and answers that are not one plain object
OddResponses ==
    {Raised(MsgTimeout), Raised(MsgApiError),
     Answer(PyList(<<>>)),                                       \* content blocks, not a str
     Answer(PyStr(<<Prose>>)),                                   \* no JSON at all
     Answer(PyStr(<<>>)),
     Answer(PyStr(<<Dumps(PyList(<<>>))>>)),                     \* JSON, but a list
     Answer(PyStr(<<Dumps(PyNone)>>)),                           \* JSON null
     Answer(PyStr(<<Prose, Ws, Dumps(JClean)>>)),
     Answer(PyStr(<<Fence("json"), Ws, Dumps(JClean), Ws, Fence("")>>)),
     Answer(PyStr(<<Prose, Fence("py"), Dumps(JBraces), Fence("")>>)),
     Answer(PyStr(<<Prose, Dumps(JBraces)>>)),
     Answer(PyStr(<<Dumps(JNullVerdict)>>)),
     Answer(PyStr(<<Dumps(JNullQuellen)>>)),
     Answer(PyStr(<<Dumps(JNullSelf)>>)),
     Answer(PyStr(<<Dumps(JNullBegruendung)>>)),
     Answer(PyStr(<<Dumps(JEmptyMangel("konform"))>>)),
     Answer(PyStr(<<Dumps(JEmptyMangel("nicht_konform"))>>))}
FeldResponses == OddResponses \cup {Answer(PyStr(<<Ws, Dumps(j), Ws>>)) : j \in FeldJudgments}
PipeResponses ==
    {Raised(MsgTimeout),
     Answer(PyStr(<<Prose>>)),
     Answer(PyStr(<<Dumps(PyList(<<>>))>>)),
     Answer(PyStr(<<Dumps(JClean)>>)),
     Answer(PyStr(<<Dumps(JNullBegruendung)>>)),
     Answer(PyStr(<<Dumps(JLong)>>)),
     Answer(PyStr(<<Dumps(Judgment(PyStr("vielleicht"), CHOOSE p \in Profiles : p.quellen = ABSENT, PyNum(90)))>>)),
     Answer(PyStr(<<Dumps(Judgment(PyStr("nicht_konform"), CHOOSE p \in Profiles : p.quellen = ABSENT, PyNum(0)))>>))}

\* Inputs of extract_json: an object, the way the answer wraps it, and the
\* resulting text
MaxDepth == 2       \* deepest nesting of objects inside a JSON object
RECURSIVE Nested(_)
Nested(n) ==
    IF n = 0 THEN JClean
    ELSE PyDict([bewertung |-> PyStr("konform"), details |-> Nested(n - 1)])
JPlaceholder == MakeDict([bewertung |-> PyStr("konform"), begruendung |-> PyStr(TxtPlaceholder)])
JsonObjects ==
    FeldJudgments \cup {PyDict(<<>>), JBraces, JPlaceholder} \cup {Nested(n) : n \in 1 .. MaxDepth}
Wrapped(o, shape, pad) ==
    LET gap == IF pad THEN <<Ws>> ELSE <<>>
    IN CASE shape = "direct" -> gap \o <<Dumps(o)>> \o gap
         [] shape = "fence_json" -> <<Fence("json")>> \o gap \o <<Dumps(o)>> \o gap \o <<Fence("")>>
         [] shape = "fence_bare" -> <<Fence("")>> \o gap \o <<Dumps(o)>> \o gap \o <<Fence("")>>
         [] shape = "prose" -> <<Prose>> \o gap \o <<Dumps(o)>>
NoJsonTexts == {<<>>, <<Ws>>, <<Prose>>, <<Prose, Ws, Prose>>, <<Fence(""), Prose, Fence("")>>}
JsonInputs ==
    {[o |-> o, shape |-> s, raw |-> Wrapped(o, s, pad)] :
        o \in JsonObjects, s \in {"direct", "fence_json", "fence_bare", "prose"}, pad \in BOOLEAN}
    \cup {[o |-> PyNone, shape |-> "none", raw |-> t] : t \in NoJsonTexts}

\* Section results the run can hold once every field of a section is
\* evaluated: every verdict and review flag for up to MaxBefunde fields, and
\* sections of ten fields of which the first k need a review
MaxBefunde == 3     \* most fields of a section whose outcomes are all enumerated
FeldId(i) == <<"F1", "F2", "F3", "F4", "F5", "F6", "F7", "F8", "F9", "F10">>[i]
SektBefund(i, bewertung, review) ==
    [prueffeld_id |-> FeldId(i), frage |-> "q", bewertung |-> bewertung,
     begruendung |-> PyStr(TxtOk), belegte_textstellen |-> PyList(<<TxtOk>>),
     empfehlungen |-> PyList(<<>>), mangel_text |-> PyNone, schweregrad |-> "None",
     quellen |-> PyList(<<>>), confidence |-> IF review THEN 600 ELSE 800,
     review_erforderlich |-> review,
     validierungshinweise |-> IF review THEN <<[confidence |-> 600, kind |-> "review"]>>
                              ELSE <<>>]
Outcomes == {"konform", "teilkonform", "nicht_konform", "nicht_pruefbar"} \X BOOLEAN
SektBefunde ==
    UNION {{[i \in 1..n |-> SektBefund(i, o[i][1], o[i][2])] : o \in [1..n -> Outcomes]} :
              n \in 0..MaxBefunde}
    \cup {[i \in 1..10 |-> SektBefund(i, "konform", i <= k)] : k \in 0..10}
SektKatalog(n) ==
    [katalog_version |-> "1",
     pruefsektionen |-> <<[id |-> "S1", titel |-> "t1",
                           prueffelder |-> [i \in 1..n |-> [id |-> FeldId(i), frage |-> "q"]]]>>]

vars == <<arg, ret, hashseed, katalog, pc, sektionen_filter, si, fi, ergebnis,
          sektionsergebnisse, eskaliert, checkpoint, report, feld, evidenz_nodes, evidenz_text,
          llm_response, judgment, val_warnings, befund, error, retrieve_calls, llm_calls>>
pureVars == <<arg, ret>>
runVars == <<katalog, sektionen_filter, si, fi, ergebnis, sektionsergebnisse,
             eskaliert, checkpoint, report>>
callVars == <<feld, evidenz_nodes, evidenz_text, llm_response, judgment, val_warnings, befund,
              retrieve_calls, llm_calls>>

\* no pure function under check
NoPure == arg = <<>> /\ ret = <<>>
\* no run of the pipeline
NoRun ==
    /\ katalog = <<>> /\ sektionen_filter = <<>> /\ si = 0 /\ fi = 0
    /\ ergebnis = <<>> /\ sektionsergebnisse = <<>> /\ eskaliert = <<>>
    /\ checkpoint = <<>> /\ report = <<>>
\* no call of pruefe_feld under way
NoCall ==
    /\ feld = <<>> /\ evidenz_nodes = <<>> /\ evidenz_text = <<>>
    /\ llm_response = <<>> /\ judgment = <<>>
    /\ val_warnings = <<>> /\ befund = <<>> /\ retrieve_calls = 0 /\ llm_calls = 0

(***************************************************************************)
(* PrueferAgent.pruefe_feld, one action per call that leaves the process   *)
(***************************************************************************)
RetrieveFailsMutGoesOn ==
    /\ pc = "retrieve"
    /\ retrieve_calls' = retrieve_calls + 1
    /\ error' = "RetrievalError"
    /\ pc' = "llm"
    /\ UNCHANGED <<pureVars, hashseed, runVars, feld, evidenz_nodes, evidenz_text,
                   llm_response, judgment, val_warnings, befund, llm_calls>>

\* self.retriever.retrieve raises: nothing in pruefe_feld catches it
RetrieveFails ==
    /\ pc = "retrieve"
    /\ retrieve_calls' = retrieve_calls + 1
    /\ error' = "RetrievalError"
    /\ pc' = "raised"
    /\ UNCHANGED <<pureVars, hashseed, runVars, feld, evidenz_nodes, evidenz_text,
                   llm_response, judgment, val_warnings, befund, llm_calls>>

\* steps 1 to 3: the retriever answers, the quality gate decides
Retrieve(nodes) ==
    /\ pc = "retrieve"
    /\ retrieve_calls' = retrieve_calls + 1
    /\ evidenz_nodes' = nodes
    /\ IF GoodNodes(nodes) = <<>>
       THEN /\ befund' = GateBefund(feld, [i \in DOMAIN nodes |-> NodeScore(nodes[i])])
            /\ evidenz_text' = <<>>
            /\ pc' = "returned"
       ELSE /\ befund' = befund
            /\ evidenz_text' = <<format_evidence(GoodNodes(nodes), feld)>>
            /\ pc' = "llm"
    /\ UNCHANGED <<pureVars, hashseed, runVars, feld, llm_response, judgment, val_warnings,
                   error, llm_calls>>

EvaluateMutRetry(answer, tie) ==
    /\ pc = "llm"
    /\ llm_calls < 3
    /\ llm_calls' = llm_calls + 1
    /\ llm_response' = answer
    /\ LET evaluated == evaluate_with_llm(answer)
       IN IF IsRaise(evaluated)
          THEN /\ error' = evaluated.exc
               /\ pc' = "raised"
               /\ UNCHANGED <<judgment, val_warnings, befund>>
          ELSE IF answer.kind = "raise"
          THEN UNCHANGED <<judgment, val_warnings, befund, error, pc>>
          ELSE LET judged == Judge(feld, evidenz_nodes, evaluated.val, tie)
               IN /\ judgment' = evaluated.val
                  /\ val_warnings' = judged.warnings
                  /\ IF judged.exc # ""
                     THEN error' = judged.exc /\ pc' = "raised" /\ befund' = befund
                     ELSE error' = error /\ pc' = "returned" /\ befund' = judged.val
    /\ UNCHANGED <<pureVars, hashseed, runVars, feld, evidenz_nodes, evidenz_text,
                   retrieve_calls>>

\* steps 4 to 7: llm.invoke answers or raises, then validation, confidence
\* and the decision
Evaluate(answer, tie) ==
    /\ pc = "llm"
    /\ llm_calls' = llm_calls + 1
    /\ llm_response' = answer
    /\ LET evaluated == evaluate_with_llm(answer)
       IN IF IsRaise(evaluated)
          THEN /\ error' = evaluated.exc
               /\ pc' = "raised"
               /\ UNCHANGED <<judgment, val_warnings, befund>>
          ELSE LET judged == Judge(feld, evidenz_nodes, evaluated.val, tie)
               IN /\ judgment' = evaluated.val
                  /\ val_warnings' = judged.warnings
                  /\ IF judged.exc # ""
                     THEN error' = judged.exc /\ pc' = "raised" /\ befund' = befund
                     ELSE error' = error /\ pc' = "returned" /\ befund' = judged.val
    /\ UNCHANGED <<pureVars, hashseed, runVars, feld, evidenz_nodes, evidenz_text,
                   retrieve_calls>>

(***************************************************************************)
(* SpecFeld: one call of pruefe_feld, for every field, retrieval and       *)
(* answer of the domains above                                             *)
(***************************************************************************)
InitFeld ==
    /\ NoPure
    /\ NoRun
    /\ hashseed \in {0, 1}
    /\ feld \in {FeldKopie(PfA, SektionA), FeldKopie(PfB, SektionA)}
    /\ evidenz_nodes = <<>> /\ evidenz_text = <<>>
    /\ llm_response = <<>> /\ judgment = <<>>
    /\ val_warnings = <<>> /\ befund = <<>> /\ retrieve_calls = 0 /\ llm_calls = 0
    /\ error = ""
    /\ pc = "retrieve"

NextFeld ==
    \/ RetrieveFails
    \/ \E nodes \in FeldNodes : Retrieve(nodes)
    \/ \E answer \in FeldResponses, tie \in {0, 1} : Evaluate(answer, tie)

SpecFeld == InitFeld /\ [][NextFeld]_vars

(***************************************************************************)
(* AuditPipeline.run                                                       *)
(***************************************************************************)
\* steps 1 and 2 and the checkpoint directory: an empty corpus raises
\* ValueError, a failing mkdir raises OSError
Start(outcome) ==
    /\ pc = "start"
    /\ IF outcome = "ok" THEN pc' = "sektion" /\ si' = 1 /\ error' = error
       ELSE pc' = "raised" /\ si' = si /\ error' = outcome
    /\ UNCHANGED <<pureVars, hashseed, katalog, sektionen_filter, fi, ergebnis,
                   sektionsergebnisse, eskaliert, checkpoint, report, callVars>>

Sektion == katalog.pruefsektionen[si]
Excluded == sektionen_filter # <<>> /\ Sektion.id \notin Range(sektionen_filter)

\* a section the filter excludes: continue
SkipSektion ==
    /\ pc = "sektion"
    /\ si <= Len(katalog.pruefsektionen)
    /\ Excluded
    /\ si' = si + 1
    /\ UNCHANGED <<pureVars, hashseed, katalog, sektionen_filter, fi, ergebnis,
                   sektionsergebnisse, eskaliert, checkpoint, report, callVars, error, pc>>

BeginSektion ==
    /\ pc = "sektion"
    /\ si <= Len(katalog.pruefsektionen)
    /\ ~Excluded
    /\ ergebnis' = [sektion_id |-> Sektion.id, titel |-> Sektion.titel, befunde |-> <<>>]
    /\ fi' = 1
    /\ pc' = "feld"
    /\ UNCHANGED <<pureVars, hashseed, katalog, sektionen_filter, si,
                   sektionsergebnisse, eskaliert, checkpoint, report, callVars, error>>

BeginFeldMutInPlace ==
    /\ pc = "feld"
    /\ fi <= Len(Sektion.prueffelder)
    /\ feld' = FeldKopie(Sektion.prueffelder[fi], Sektion)
    /\ katalog' = [katalog EXCEPT !.pruefsektionen[si].prueffelder[fi] = feld']
    /\ retrieve_calls' = 0
    /\ llm_calls' = 0
    /\ pc' = "retrieve"
    /\ UNCHANGED <<pureVars, hashseed, sektionen_filter, si, fi, ergebnis, sektionsergebnisse,
                   eskaliert, checkpoint, report, evidenz_nodes, evidenz_text, llm_response,
                   judgment, val_warnings, befund, error>>

\* the local copy of the field, and the call of agent.pruefe_feld
BeginFeld ==
    /\ pc = "feld"
    /\ fi <= Len(Sektion.prueffelder)
    /\ feld' = FeldKopie(Sektion.prueffelder[fi], Sektion)
    /\ retrieve_calls' = 0
    /\ llm_calls' = 0
    /\ pc' = "retrieve"
    /\ UNCHANGED <<pureVars, hashseed, runVars, evidenz_nodes, evidenz_text, llm_response,
                   judgment,
                   val_warnings, befund, error>>

AppendBefundMutPrepend ==
    /\ pc = "returned"
    /\ ergebnis' = [ergebnis EXCEPT !.befunde = <<befund>> \o @]
    /\ fi' = fi + 1
    /\ pc' = "feld"
    /\ UNCHANGED <<pureVars, hashseed, katalog, sektionen_filter, si,
                   sektionsergebnisse, eskaliert, checkpoint, report, callVars, error>>

\* ergebnis.befunde.append(befund)
AppendBefund ==
    /\ pc = "returned"
    /\ ergebnis' = [ergebnis EXCEPT !.befunde = Append(@, befund)]
    /\ fi' = fi + 1
    /\ pc' = "feld"
    /\ UNCHANGED <<pureVars, hashseed, katalog, sektionen_filter, si,
                   sektionsergebnisse, eskaliert, checkpoint, report, callVars, error>>

\* after the last field: escalation, the section result, the checkpoint;
\* _save_checkpoint swallows every exception of building or writing it
EndSektion(write_ok) ==
    /\ pc = "feld"
    /\ fi > Len(Sektion.prueffelder)
    /\ eskaliert' = IF Eskalation(ergebnis.befunde)
                    THEN Append(eskaliert, ergebnis.sektion_id) ELSE eskaliert
    /\ sektionsergebnisse' = Append(sektionsergebnisse, ergebnis)
    /\ LET data == CheckpointData(sektionsergebnisse')
       IN checkpoint' = IF write_ok /\ ~IsRaise(data) THEN data.val ELSE checkpoint
    /\ si' = si + 1
    /\ pc' = "sektion"
    /\ UNCHANGED <<pureVars, hashseed, katalog, sektionen_filter, fi, ergebnis,
                   report, callVars, error>>

\* step 4: the section results go to the report generator
GenerateReport ==
    /\ pc = "sektion"
    /\ si > Len(katalog.pruefsektionen)
    /\ report' = sektionsergebnisse
    /\ pc' = "done"
    /\ UNCHANGED <<pureVars, hashseed, katalog, sektionen_filter, si, fi, ergebnis,
                   sektionsergebnisse, eskaliert, checkpoint, callVars, error>>

Init ==
    /\ NoPure
    /\ NoCall
    /\ hashseed \in {0, 1}
    /\ katalog = Katalog
    /\ sektionen_filter \in Filters
    /\ si = 0 /\ fi = 0
    /\ ergebnis = <<>> /\ sektionsergebnisse = <<>> /\ eskaliert = <<>>
    /\ checkpoint = <<>> /\ report = <<>>
    /\ error = ""
    /\ pc = "start"

Next ==
    \/ \E outcome \in {"ok", "ValueError", "OSError"} : Start(outcome)
    \/ SkipSektion
    \/ BeginSektion
    \/ BeginFeld
    \/ RetrieveFails
    \/ \E nodes \in PipeNodes : Retrieve(nodes)
    \/ \E answer \in PipeResponses, tie \in {0, 1} : Evaluate(answer, tie)
    \/ AppendBefund
    \/ \E write_ok \in BOOLEAN : EndSektion(write_ok)
    \/ GenerateReport

Spec == Init /\ [][Next]_vars

(***************************************************************************)
(* Claims about PrueferAgent.pruefe_feld (SpecFeld) and the run (Spec)     *)
(***************************************************************************)
\* the retriever has answered this call
Retrieved == retrieve_calls = 1 /\ error # "RetrievalError"
\* a chunk's relevance score, a null score counting as 0.0
ScoreOrZero(n) == IF n.score = PyNone THEN 0 ELSE n.score.v
NoChunkAboveMin ==
    \A i \in DOMAIN evidenz_nodes : ~Ge(ScoreOrZero(evidenz_nodes[i]), RETRIEVAL_SCORE_MIN)
\* pruefe_feld returned a Befund that rests on the model's judgment
ModelJudged == pc = "returned" /\ llm_calls = 1
\* the model's judgment states a verdict
HasVerdict == "bewertung" \in DOMAIN judgment.v
VerdictKept == HasVerdict => PyStr(befund.bewertung) = judgment.v.bewertung
Hints == befund.validierungshinweise
LastHintIs(kind) == Hints # <<>> /\ Hints[Len(Hints)].kind = kind

\* C1: when no retrieved chunk has a score >= the minimum score (a null
\* score counts as 0.0; nothing retrieved included), pruefe_feld returns a
\* Befund with verdict nicht_pruefbar, confidence 0.0 and review required,
\* and the model is never invoked.
C1_QualityGate ==
    (Retrieved /\ NoChunkAboveMin) =>
        /\ pc = "returned"
        /\ llm_calls = 0
        /\ befund.bewertung = "nicht_pruefbar"
        /\ befund.confidence = 0
        /\ befund.review_erforderlich

\* C1 witness: the best score is 0.2 against the threshold 0.35
C1_Witness ==
    /\ Retrieved
    /\ NoChunkAboveMin
    /\ evidenz_nodes = <<Node(PyNone, MetaRa), Node(PyNum(20), MetaRa)>>
    /\ pc = "returned"
    /\ llm_calls = 0
    /\ befund.begruendung.best = 20

\* C2: no outcome of the model invocation makes pruefe_feld raise: once the
\* model has been invoked for a field, the call returns a Befund and the run
\* goes on.
C2_ModelFailureNeverAborts == ~(pc = "raised" /\ llm_calls = 1)

\* llm.invoke raised, or extract_json raised the parse error on its text
InvokeRaised == llm_calls = 1 /\ llm_response.kind = "raise"
ParseFailed ==
    /\ llm_calls = 1
    /\ llm_response.kind = "message"
    /\ extract_json(llm_response.content).exc = "JSONDecodeError"

\* C3: when the model invocation raises or extract_json raises the parse
\* error, _evaluate_with_llm returns a judgment with verdict nicht_pruefbar,
\* a justification carrying the error description, no excerpts, no
\* recommendations, no sources, a null deficiency text and self-confidence
\* 0.0; the Befund built from it has verdict nicht_pruefbar.
C3_Degradation ==
    (InvokeRaised \/ ParseFailed) =>
        /\ pc = "returned"
        /\ judgment.t = "dict"
        /\ DOMAIN judgment.v = {"bewertung", "begruendung", "belegte_textstellen",
                                "mangel_text", "empfehlungen", "quellen", "confidence_self"}
        /\ judgment.v.bewertung = PyStr("nicht_pruefbar")
        /\ judgment.v.begruendung.t = "str"
        /\ Contains(judgment.v.begruendung.v,
                    IF InvokeRaised THEN llm_response.message ELSE JsonErrorText)
        /\ judgment.v.belegte_textstellen = PyList(<<>>)
        /\ judgment.v.empfehlungen = PyList(<<>>)
        /\ judgment.v.quellen = PyList(<<>>)
        /\ judgment.v.mangel_text = PyNone
        /\ judgment.v.confidence_self = PyNum(0)
        /\ befund.bewertung = "nicht_pruefbar"

\* C3 witness: an answer that holds an object the three attempts cannot
\* recover degrades to nicht_pruefbar
C3_Witness ==
    /\ ParseFailed
    /\ llm_response = Answer(PyStr(<<Prose, Dumps(JBraces)>>))
    /\ pc = "returned"
    /\ befund.bewertung = "nicht_pruefbar"

\* C4: a fused confidence below 0.4 makes the verdict nicht_pruefbar whatever
\* the model said, requires review and appends the auto-reject warning; a
\* confidence of exactly 0.4 is not auto-rejected.
C4_AutoReject ==
    ModelJudged =>
        /\ Lt(befund.confidence, CONFIDENCE_AUTO_REJECT) =>
            /\ befund.bewertung = "nicht_pruefbar"
            /\ befund.review_erforderlich
            /\ Hints = Append(val_warnings, [confidence |-> befund.confidence, kind |-> "auto_reject"])
        /\ befund.confidence = CONFIDENCE_AUTO_REJECT =>
            /\ VerdictKept
            /\ ~LastHintIs("auto_reject")

\* C4 witness: the model said nicht_konform with low confidence
C4_Witness ==
    /\ ModelJudged
    /\ Lt(befund.confidence, CONFIDENCE_AUTO_REJECT)
    /\ HasVerdict
    /\ judgment.v.bewertung = PyStr("nicht_konform")
    /\ befund.bewertung = "nicht_pruefbar"
    /\ LastHintIs("auto_reject")

\* C5: a fused confidence in [0.4, 0.7) keeps the model's verdict, requires
\* review and appends the review warning.
C5_ReviewBand ==
    (/\ ModelJudged
     /\ Ge(befund.confidence, CONFIDENCE_AUTO_REJECT)
     /\ Lt(befund.confidence, CONFIDENCE_REVIEW_THRESHOLD)) =>
        /\ VerdictKept
        /\ befund.review_erforderlich
        /\ Hints = Append(val_warnings, [confidence |-> befund.confidence, kind |-> "review"])

\* C5 witness: a nicht_konform verdict kept at confidence exactly 0.4
C5_Witness ==
    /\ ModelJudged
    /\ befund.confidence = CONFIDENCE_AUTO_REJECT
    /\ befund.bewertung = "nicht_konform"
    /\ befund.review_erforderlich
    /\ LastHintIs("review")

\* C6: a fused confidence >= 0.7 keeps the model's verdict, appends no
\* confidence warning, and requires review exactly when the validator
\* returned a warning.
C6_Accepted ==
    (ModelJudged /\ Ge(befund.confidence, CONFIDENCE_REVIEW_THRESHOLD)) =>
        /\ VerdictKept
        /\ Hints = val_warnings
        /\ befund.review_erforderlich <=> (val_warnings # <<>>)

\* C6 witness: confidence exactly 0.7, a clean judgment, no review
C6_Witness ==
    /\ ModelJudged
    /\ befund.confidence = CONFIDENCE_REVIEW_THRESHOLD
    /\ befund.bewertung = "konform"
    /\ val_warnings = <<>>
    /\ ~befund.review_erforderlich

\* C7: on the model-judged path a non-empty validator result requires
\* review whatever the confidence, and every validator warning is in the
\* Befund's warnings.
C7_ValidatorForcesReview ==
    (ModelJudged /\ val_warnings # <<>>) =>
        /\ befund.review_erforderlich
        /\ Len(Hints) >= Len(val_warnings)
        /\ SubSeq(Hints, 1, Len(val_warnings)) = val_warnings

\* C7 witness: high confidence, and still review because of a phantom source
C7_Witness ==
    /\ ModelJudged
    /\ Ge(befund.confidence, CONFIDENCE_REVIEW_THRESHOLD)
    /\ \E i \in DOMAIN val_warnings : val_warnings[i].kind = "phantom"
    /\ Hints = val_warnings
    /\ befund.review_erforderlich


(***************************************************************************)
(* SpecConf: compute_confidence applied to every input of ConfInputs       *)
(***************************************************************************)
\* nothing of the pipeline runs while a pure function is under check
Idle == NoRun /\ NoCall /\ error = "" /\ pc = "idle"

InitConf ==
    /\ arg \in ConfInputs
    /\ ret = <<>>
    /\ hashseed = 0
    /\ Idle

CallComputeConfidence ==
    /\ ret = <<>>
    /\ "scores" \in DOMAIN arg
    /\ ret' = <<compute_confidence(arg.scores, arg.evidenz, arg.quellen,
                                   arg.erlaubt, arg.gefunden, arg.self, arg.tie)>>
    /\ UNCHANGED <<arg, hashseed, runVars, callVars, error, pc>>

NextConf == CallComputeConfidence

SpecConf == InitConf /\ [][NextConf]_vars

\* C8: compute_confidence returns a value in [0.0, 1.0] for every input,
\* out-of-range scores and self-reported confidences included.
C8_ConfidenceBounded ==
    (ret # <<>> /\ "scores" \in DOMAIN arg) => (Ge(ret[1], 0) /\ Ge(1000, ret[1]))

\* the inputs of the call are numbers, none of them NaN
NumbersOnly ==
    /\ "scores" \in DOMAIN arg
    /\ arg.self # NaN
    /\ \A i \in DOMAIN arg.scores : arg.scores[i] # NaN

\* compute_confidence is in [0.0, 1.0] for all numbers, in range or not
C8_BoundedForNumbers ==
    (ret # <<>> /\ NumbersOnly) => (Ge(ret[1], 0) /\ Ge(1000, ret[1]))

(***************************************************************************)
(* The fusion formula as specified: the reference for compute_confidence   *)
(***************************************************************************)
RECURSIVE Gcd(_, _)
Gcd(m, n) == IF n = 0 THEN m ELSE Gcd(n, m % n)
\* a fraction in lowest terms, denominator > 0
FracNorm(a) ==
    LET g == Gcd(IF a[1] < 0 THEN -a[1] ELSE a[1], a[2])
    IN <<a[1] \div g, a[2] \div g>>
FracAdd(a, b) == FracNorm(<<a[1] * b[2] + b[1] * a[2], a[2] * b[2]>>)
FracScale(k, a) == FracNorm(<<k * a[1], a[2]>>)
FracClamp01(a) == IF a[1] < 0 THEN <<0, 1>> ELSE IF a[1] > a[2] THEN <<1, 1>> ELSE a

\* a keyword is matched when one of its whitespace-separated tokens occurs
\* in the lower-cased name of a retrieved source
RefMatched(keyword, quellen) ==
    \E tok \in Range(Split(Lower(keyword))) :
        \E k \in DOMAIN quellen : Contains(Lower(quellen[k]), tok)

RefRetrieval(scores) ==
    IF Len(scores) = 0 THEN <<0, 1>>
    ELSE FracClamp01(<<Sum(scores), 100 * Len(scores)>>)

RefCoverage(evidenz, quellen) ==
    IF Len(evidenz) = 0 THEN <<5, 10>>
    ELSE <<Cardinality({i \in 1 .. Len(evidenz) : RefMatched(evidenz[i], quellen)}),
           Len(evidenz)>>

RefType(erlaubt, gefunden) ==
    IF Cardinality(erlaubt) = 0 THEN <<10, 10>>
    ELSE <<Cardinality({x \in erlaubt : x \in gefunden}), Cardinality(erlaubt)>>

RefSelf(self) == FracClamp01(<<self, 100>>)

RefConfidence(a) ==
    LET total == FracAdd(FracAdd(FracScale(300, RefRetrieval(a.scores)),
                                 FracScale(300, RefCoverage(a.evidenz, a.quellen))),
                         FracAdd(FracScale(200, RefType(a.erlaubt, a.gefunden)),
                                 FracScale(200, RefSelf(a.self))))
    IN Round3(total[1], total[2], a.tie)

\* C9: compute_confidence equals 0.30*retrieval + 0.30*coverage + 0.20*type
\* + 0.20*self rounded to 3 decimals, with retrieval the clamped mean (0.0 for
\* no scores), coverage the fraction of matched keywords (0.5 for none
\* expected), type |allowed & retrieved| / |allowed| (1.0 for no restriction)
\* and self the clamped self-reported confidence, for all numbers.
C9_ConfidenceFormula ==
    (ret # <<>> /\ NumbersOnly) => ret[1] = RefConfidence(arg)

\* C9 witness: every signal strictly between 0 and 1:
\* 0.30*0.625 + 0.30*0.5 + 0.20/3 + 0.20*0.5 = 0.504
C9_Witness ==
    /\ ret = <<504>>
    /\ "scores" \in DOMAIN arg
    /\ arg.scores = <<35, 90>>
    /\ arg.evidenz = <<KwRa, KwVz>>
    /\ arg.quellen = <<SrcRa>>
    /\ arg.erlaubt = {"pdf", "excel", "interview"}
    /\ arg.gefunden = {"pdf"}
    /\ arg.self = 50

(***************************************************************************)
(* SpecVal: validate_befund_structure applied to every input of ValInputs  *)
(***************************************************************************)
InitVal ==
    /\ arg \in ValInputs
    /\ ret = <<>>
    /\ hashseed \in {0, 1}
    /\ Idle

CallValidate ==
    /\ ret = <<>>
    /\ "llm_result" \in DOMAIN arg
    /\ ret' = <<validate_befund_structure(arg.llm_result, arg.retrieved_sources, "gwg")>>
    /\ UNCHANGED <<arg, hashseed, runVars, callVars, error, pc>>

NextVal == CallValidate

SpecVal == InitVal /\ [][NextVal]_vars

\* the call of validate_befund_structure has returned a warning list
ValReturned ==
    /\ ret # <<>>
    /\ "llm_result" \in DOMAIN arg
    /\ ~IsRaise(ret[1])

\* the source names the judgment cites (none when the key is absent)
Cited(j) == IF "quellen" \in DOMAIN j.v THEN Range(j.v.quellen.v) ELSE {}
PhantomOf(ws) == {i \in DOMAIN ws : ws[i].kind = "phantom"}

\* C10: when the judgment cites a source that was not retrieved, the result
\* holds a phantom-citation warning whose text contains every such name; when
\* every cited source was retrieved, it holds no phantom-citation warning.
C10_PhantomCitation ==
    ValReturned =>
        LET offending == Cited(arg.llm_result) \ arg.retrieved_sources
            ws == ret[1].val
        IN /\ offending # {} =>
                \E i \in PhantomOf(ws) : \A n \in offending : Contains(ws[i].text, n)
           /\ offending = {} => PhantomOf(ws) = {}

\* C10 witness: two offending names, both in the one warning
C10_Witness ==
    /\ ValReturned
    /\ Cited(arg.llm_result) = {SrcPhantom, SrcVz}
    /\ arg.retrieved_sources = {SrcRa}
    /\ \E i \in PhantomOf(ret[1].val) :
            /\ Contains(ret[1].val[i].text, SrcPhantom)
            /\ Contains(ret[1].val[i].text, SrcVz)

(***************************************************************************)
(* Claims about checks 3 to 5 of validate_befund_structure (SpecVal)       *)
(***************************************************************************)
\* the fields of the judgment the validator was given, None when absent
JudgedVerdict == Get(arg.llm_result.v, "bewertung", PyNone)
JudgedMangel == Get(arg.llm_result.v, "mangel_text", PyNone)
JudgedTextstellen == Get(arg.llm_result.v, "belegte_textstellen", PyNone)
JudgedBegruendung == Get(arg.llm_result.v, "begruendung", PyNone)
\* the returned list holds a warning of this kind
Warned(kind) == \E i \in DOMAIN ret[1].val : ret[1].val[i].kind = kind
\* the list of cited excerpts is empty, null or absent
NoExcerpts == JudgedTextstellen = PyNone \/ JudgedTextstellen = PyList(<<>>)

\* C11: a judgment with verdict konform and a non-null deficiency text, the
\* empty string included, gets the contradiction warning.
C11_ContradictionWarning ==
    (ValReturned /\ JudgedVerdict = PyStr("konform") /\ JudgedMangel # PyNone) =>
        Warned("mangel_bei_konform")

\* the contradiction warning is there exactly for a non-empty deficiency text
C11_ContradictionForText ==
    (ValReturned /\ JudgedVerdict = PyStr("konform")) =>
        (Warned("mangel_bei_konform") <=> (JudgedMangel # PyNone /\ JudgedMangel.v # <<>>))

\* C12: a judgment with verdict nicht_konform and a null or absent
\* deficiency text gets the missing-deficiency warning.
C12_MissingDeficiency ==
    (ValReturned /\ JudgedVerdict = PyStr("nicht_konform") /\ JudgedMangel = PyNone) =>
        Warned("kein_mangel_text")

\* C12 witness: nicht_konform, the deficiency text null, and the warning
C12_Witness ==
    /\ ValReturned
    /\ JudgedVerdict = PyStr("nicht_konform")
    /\ "mangel_text" \in DOMAIN arg.llm_result.v
    /\ JudgedMangel = PyNone
    /\ JudgedTextstellen = PyList(<<TxtOk>>)
    /\ Warned("kein_mangel_text")

BracePlaceholder(x) ==
    /\ x # PyNone
    /\ \E i \in DOMAIN x.v : \E k \in DOMAIN x.v : i < k /\ x.v[i] = "{" /\ x.v[k] = "}"
\* a deficiency text is there: a string that is not empty
HasMangel == JudgedMangel # PyNone /\ JudgedMangel.v # <<>>
\* the conditions of the five checks, read off the judgment
Check1Fires == Cited(arg.llm_result) \ arg.retrieved_sources # {}
Check2Fires == BracePlaceholder(JudgedBegruendung) \/ BracePlaceholder(JudgedMangel)
Check3Fires ==
    /\ JudgedVerdict \in {PyStr("konform"), PyStr("teilkonform"), PyStr("nicht_konform")}
    /\ NoExcerpts
Check4Fires == JudgedVerdict = PyStr("konform") /\ HasMangel
Check5Fires == JudgedVerdict = PyStr("nicht_konform") /\ ~HasMangel
\* the judgment the claim calls clean
CleanJudgment ==
    /\ Cited(arg.llm_result) \subseteq arg.retrieved_sources
    /\ ~BracePlaceholder(JudgedBegruendung)
    /\ ~BracePlaceholder(JudgedMangel)
    /\ JudgedVerdict = PyStr("nicht_pruefbar") \/ ~NoExcerpts
    /\ JudgedVerdict = PyStr("konform") => ~HasMangel
    /\ JudgedVerdict = PyStr("nicht_konform") => HasMangel

InitJson ==
    /\ arg \in JsonInputs
    /\ ret = <<>>
    /\ hashseed = 0
    /\ Idle

CallExtractJson ==
    /\ ret = <<>>
    /\ "raw" \in DOMAIN arg
    /\ ret' = <<extract_json(PyStr(arg.raw))>>
    /\ UNCHANGED <<arg, hashseed, runVars, callVars, error, pc>>

NextJson == CallExtractJson

SpecJson == InitJson /\ [][NextJson]_vars

JsonReturned == ret # <<>> /\ "raw" \in DOMAIN arg

C15_DirectAndFenced ==
    JsonReturned =>
        /\ arg.shape \in {"direct", "fence_json", "fence_bare"} => ret[1] = Ok(arg.o)
        /\ arg.shape = "none" => ret[1] = Raise("JSONDecodeError")

(***************************************************************************)
(* SpecSekt: the end of a section of the run, and the two properties of    *)
(* Sektionsergebnis, for every section result of SektBefunde               *)
(***************************************************************************)
InitSekt ==
    /\ NoPure
    /\ NoCall
    /\ hashseed = 0
    /\ \E befunde \in SektBefunde :
          /\ katalog = SektKatalog(Len(befunde))
          /\ ergebnis = [sektion_id |-> "S1", titel |-> "t1", befunde |-> befunde]
          /\ fi = Len(befunde) + 1
    /\ sektionen_filter = <<>>
    /\ si = 1
    /\ sektionsergebnisse = <<>> /\ eskaliert = <<>>
    /\ checkpoint = <<>> /\ report = <<>>
    /\ error = ""
    /\ pc = "feld"

\* ergebnis.review_quote is read
CallReviewQuote ==
    /\ ret = <<>>
    /\ ret' = <<[property |-> "review_quote", val |-> review_quote(ergebnis.befunde)]>>
    /\ UNCHANGED <<arg, hashseed, runVars, callVars, error, pc>>

\* ergebnis.kritische_befunde is read
CallKritischeBefunde ==
    /\ ret = <<>>
    /\ ret' = <<[property |-> "kritische_befunde",
                 val |-> kritische_befunde(ergebnis.befunde)]>>
    /\ UNCHANGED <<arg, hashseed, runVars, callVars, error, pc>>

NextSekt ==
    \/ CallReviewQuote
    \/ CallKritischeBefunde
    \/ \E write_ok \in BOOLEAN : EndSektion(write_ok)
    \/ GenerateReport

SpecSekt == InitSekt /\ [][NextSekt]_vars

\* the property of ergebnis that was read
WasRead(property) == ret # <<>> /\ ret[1].property = property

\* the findings of befunde that need a review
NeedingReview(befunde) == LET needs(b) == b.review_erforderlich IN SelectSeq(befunde, needs)

\* C16: review_quote is the number of findings that need a review divided
\* by the number of findings, 0.0 for no finding, and so lies in [0, 1]
C16_ReviewQuote ==
    WasRead("review_quote") =>
        LET befunde == ergebnis.befunde
            quote == ret[1].val
        IN /\ quote[2] > 0
           /\ 0 <= quote[1] /\ quote[1] <= quote[2]
           /\ befunde = <<>> => quote[1] = 0
           /\ befunde # <<>> =>
                 quote[1] * Len(befunde) = Len(NeedingReview(befunde)) * quote[2]

\* C16 witness: two findings of which one needs a review give exactly 0.5
C16_Witness ==
    /\ WasRead("review_quote")
    /\ Len(ergebnis.befunde) = 2
    /\ Len(NeedingReview(ergebnis.befunde)) = 1
    /\ 2 * ret[1].val[1] = ret[1].val[2]

\* the positions of the non-conform and partially-conform findings
KritischAt(befunde) ==
    {i \in DOMAIN befunde : befunde[i].bewertung \in {"nicht_konform", "teilkonform"}}

\* the j-th smallest position of a set of positions
NthOf(positions, j) == CHOOSE i \in positions : Cardinality({x \in positions : x <= i}) = j

\* C17: kritische_befunde holds the non-conform and partially-conform
\* findings of the section, all of them, no other, in the section's order
C17_KritischeBefunde ==
    WasRead("kritische_befunde") =>
        LET befunde == ergebnis.befunde
            kritisch == ret[1].val
        IN /\ Len(kritisch) = Cardinality(KritischAt(befunde))
           /\ \A j \in DOMAIN kritisch : kritisch[j] = befunde[NthOf(KritischAt(befunde), j)]

\* C17 witness: conform, non-conform, partially-conform gives the last two
C17_Witness ==
    /\ WasRead("kritische_befunde")
    /\ [i \in DOMAIN ergebnis.befunde |-> ergebnis.befunde[i].bewertung]
           = <<"konform", "nicht_konform", "teilkonform">>
    /\ [j \in DOMAIN ret[1].val |-> ret[1].val[j].prueffeld_id] = <<"F2", "F3">>

\* C19: a section whose fields are all evaluated is flagged for escalation
\* exactly when its review ratio is at least 0.3: three reviews in ten
\* findings escalate, a section without findings never does
C19_Escalation ==
    \A i \in DOMAIN sektionsergebnisse :
        LET befunde == sektionsergebnisse[i].befunde
            reviews == Len(NeedingReview(befunde))
        IN sektionsergebnisse[i].sektion_id \in Range(eskaliert)
               <=> (befunde # <<>> /\ 10 * reviews >= 3 * Len(befunde))

\* C19 witness: a completed section with a review ratio of exactly 0.3
\* is flagged
C19_Witness ==
    /\ Len(sektionsergebnisse) = 1
    /\ Len(sektionsergebnisse[1].befunde) = 10
    /\ Len(NeedingReview(sektionsergebnisse[1].befunde)) = 3
    /\ eskaliert = <<"S1">>

(***************************************************************************)
(* Claims about the order of the findings of a run (Spec)                  *)
(***************************************************************************)
IsPrefix(s, t) == Len(s) <= Len(t) /\ \A i \in DOMAIN s : s[i] = t[i]

\* the catalog sections the filter selects, in catalog order
Selected ==
    LET selected(s) == sektionen_filter = <<>> \/ s.id \in Range(sektionen_filter)
    IN SelectSeq(katalog.pruefsektionen, selected)

\* the run ended with no exception
RunDone == pc = "done"

\* one result per selected section and one finding per field, in catalog order
InCatalogOrder ==
    /\ Len(sektionsergebnisse) = Len(Selected)
    /\ \A i \in DOMAIN sektionsergebnisse :
          LET befunde == sektionsergebnisse[i].befunde
              felder == Selected[i].prueffelder
          IN /\ sektionsergebnisse[i].sektion_id = Selected[i].id
             /\ Len(befunde) = Len(felder)
             /\ \A j \in DOMAIN befunde : befunde[j].prueffeld_id = felder[j].id

\* a step of the run only appends: findings to the section being filled,
\* and that section, as it stands, to the completed ones
OnlyAppends ==
    /\ IsPrefix(sektionsergebnisse, sektionsergebnisse')
    /\ Len(sektionsergebnisse') > Len(sektionsergebnisse)
          => sektionsergebnisse' = Append(sektionsergebnisse, ergebnis)
    /\ (DOMAIN ergebnis # {} /\ DOMAIN ergebnis' # {}
            /\ ergebnis'.sektion_id = ergebnis.sektion_id)
          => IsPrefix(ergebnis.befunde, ergebnis'.befunde)

\* C18: a run that ends with no exception holds one result per selected
\* section and one finding per field of it, in catalog order and with the
\* field's id, and until then every findings list only grows at its end
C18_NoFindingDropped == [](RunDone => InCatalogOrder) /\ [][OnlyAppends]_vars

\* C18 witness: an unfiltered run over both sections has ended
C18_Witness ==
    /\ RunDone
    /\ sektionen_filter = <<>>
    /\ Len(sektionsergebnisse) = 2
    /\ [j \in DOMAIN sektionsergebnisse[1].befunde |->
           sektionsergebnisse[1].befunde[j].prueffeld_id] = <<"F1", "F2">>
    /\ [j \in DOMAIN sektionsergebnisse[2].befunde |->
           sektionsergebnisse[2].befunde[j].prueffeld_id] = <<"F3">>

(***************************************************************************)
(* Claims about _format_evidence (SpecFeld)                                *)
(***************************************************************************)
\* _format_evidence ran in this call of pruefe_feld
Formatted == evidenz_text # <<>>

\* the document types the field allows (none: no restriction)
AllowedTypes == Range(Get(feld, "input_typen", <<>>))

\* the field restricts the types and every chunk that passed the gate has
\* another one
AllFilteredOut ==
    LET good_nodes == GoodNodes(evidenz_nodes)
    IN /\ AllowedTypes # {}
       /\ \A i \in DOMAIN good_nodes : NodeType(good_nodes[i]) \notin AllowedTypes

\* no block of the evidence text is a chunk of a type the field excludes
DisallowedNeverShown ==
    evidenz_text[1].k = "evidenz" /\ AllowedTypes # {}
        => \A j \in DOMAIN evidenz_text[1].blocks :
               evidenz_text[1].blocks[j].input_type \in AllowedTypes

\* C20: when the field restricts the document types and no chunk that
\* passed the gate has an allowed one, the evidence text is the fixed
\* marker for no evidence; a chunk of an excluded type is never in the text
C20_FormatEvidence ==
    Formatted =>
        /\ AllFilteredOut => evidenz_text[1] = KeineEvidenz
        /\ DisallowedNeverShown

\* the second half of C20 alone
C20_DisallowedNeverShown == Formatted => DisallowedNeverShown

\* what the code returns when the soft filter leaves no chunk: the header
\* of the evidence block with no block under it
C20_HeaderOnly ==
    Formatted /\ AllFilteredOut => evidenz_text[1] = [k |-> "evidenz", blocks |-> <<>>]

(***************************************************************************)
(* Claims about checkpoints and failures of the run (Spec)                 *)
(***************************************************************************)
\* the run ended with an exception
RunRaised == pc = "raised"

\* what creating the checkpoint directory raises when it fails
CheckpointErrors == {"OSError"}

\* C21: nothing that fails in checkpoint persistence (creating the
\* directory, building the snapshot, writing the file) reaches the caller
\* of run
C21_CheckpointNeverAborts == RunRaised => error \notin CheckpointErrors

\* the part of C21 that is about _save_checkpoint: the step that ends a
\* section never ends the run, whether or not the snapshot can be built
\* and written
C21_SaveNeverAborts == [][pc = "feld" /\ pc' # "feld" /\ fi > Len(Sektion.prueffelder) => pc' = "sektion"]_vars

\* pruefe_feld is under way for field fi of section si
InCall == pc \in {"retrieve", "llm", "returned"}

\* the field pruefe_feld was given is the copy of the catalog field with
\* the section's legal bases, and the catalog field has not got them
FreshCopy ==
    /\ feld = FeldKopie(Sektion.prueffelder[fi], Sektion)
    /\ katalog.pruefsektionen[si].prueffelder[fi] = Katalog.pruefsektionen[si].prueffelder[fi]

\* C22: the catalog stays what was loaded after any number of field
\* evaluations; the legal bases of the section go into a per-field copy
\* only, and pruefe_feld leaves the field it is given as it is
C22_CatalogImmutable == [](katalog = Katalog /\ (InCall => FreshCopy)) /\ [][InCall => feld' = feld]_vars

\* C22 witness: the run has evaluated every field; the last copy carries
\* the legal bases of its section, the catalog field does not
C22_Witness ==
    /\ RunDone
    /\ Len(sektionsergebnisse) = 2
    /\ "rechtsgrundlagen" \in DOMAIN feld
    /\ \A i \in DOMAIN katalog.pruefsektionen :
          \A j \in DOMAIN katalog.pruefsektionen[i].prueffelder :
              "rechtsgrundlagen" \notin DOMAIN katalog.pruefsektionen[i].prueffelder[j]

\* the index search raised for the field the run is at
RetrievalFailed == error = "RetrievalError"

\* C23: when the index search raises, pruefe_feld raises without a
\* finding and without a call of the model, and the run ends there: no
\* further field, no report
C23_RetrievalFailureAborts ==
    /\ [](RetrievalFailed =>
            /\ RunRaised
            /\ llm_calls = 0
            /\ Len(ergebnis.befunde) = fi - 1
            /\ report = <<>>)
    /\ [][~RetrievalFailed]_vars

\* C23 witness: the search raised for the second field of the first section
C23_Witness ==
    /\ RetrievalFailed
    /\ RunRaised
    /\ si = 1 /\ fi = 2
    /\ Len(ergebnis.befunde) = 1

(***************************************************************************)
(* Claims about the findings pruefe_feld returns (SpecFeld)                *)
(***************************************************************************)
\* pruefe_feld returned a Befund
Returned == pc = "returned"

\* the Befund carries a hint of this kind
Hinted(kind) == \E i \in DOMAIN Hints : Hints[i].kind = kind

\* the deficiency text of the Befund is null or "" / is a text with content
MangelMissing == befund.mangel_text = PyNone \/ befund.mangel_text = PyStr(<<>>)
MangelGiven == befund.mangel_text.t = "str" /\ befund.mangel_text.v # <<>>

First200(text) ==
    IF text.t = "gate" THEN [text EXCEPT !.t = "gate_200"]
    ELSE [text EXCEPT !.v = [i \in 1..(IF Len(@) < 200 THEN Len(@) ELSE 200) |-> @[i]]]

\* what a checkpoint of these sections holds
Snapshot(sektionen) ==
    [i \in DOMAIN sektionen |->
        [id |-> sektionen[i].sektion_id, titel |-> sektionen[i].titel,
         befunde |-> [j \in DOMAIN sektionen[i].befunde |->
            LET b == sektionen[i].befunde[j]
            IN [id |-> b.prueffeld_id, bewertung |-> b.bewertung, confidence |-> b.confidence,
                review_erforderlich |-> b.review_erforderlich,
                begruendung |-> First200(b.begruendung)]]]]

\* a step writes the checkpoint only when it ends a section, and writes
\* the sections completed by then
WrittenAtSectionEnd ==
    checkpoint' # checkpoint =>
        /\ pc = "feld" /\ pc' = "sektion" /\ si' = si + 1
        /\ Len(ergebnis.befunde) = Len(Sektion.prueffelder)
        /\ sektionsergebnisse' = Append(sektionsergebnisse, ergebnis)
        /\ checkpoint' = Snapshot(sektionsergebnisse')

\* the checkpoint lists completed sections only, from the first on
ListsCompletedOnly ==
    \E k \in 0..Len(sektionsergebnisse) :
        checkpoint = Snapshot(SubSeq(sektionsergebnisse, 1, k))

CallEnded == pc \in {"returned", "raised"}

C27_ReviewIffWarnings == Returned => (befund.review_erforderlich <=> Hints # <<>>)

\* C27 witness: a judged Befund whose only hint is the one of the review
\* band, and which needs a review
C27_Witness ==
    /\ ModelJudged
    /\ befund.review_erforderlich
    /\ Len(Hints) = 1
    /\ LastHintIs("review")

\* the judgment is the degraded one of a failed invocation or of an
\* answer that could not be parsed
DegradedJudged == ModelJudged /\ (InvokeRaised \/ ParseFailed)

\* C28: the Befund of a field whose invocation failed or whose answer
\* could not be parsed needs a review, whatever the retrieval scores, the
\* coverage of the expected evidence and the match of the document types
C28_DegradedNeedsReview == DegradedJudged => befund.review_erforderlich

\* what the code does for C28: the degraded Befund needs a review exactly
\* when the three signals of the retrieval leave the confidence below the
\* review threshold or the validator warns about the error text
C28_DegradedByConfidence ==
    DegradedJudged =>
        (befund.review_erforderlich
            <=> (Lt(befund.confidence, CONFIDENCE_REVIEW_THRESHOLD) \/ val_warnings # <<>>))

\* the verdict of the Befund is the one the answer of the model states
ModelsVerdict ==
    /\ ModelJudged
    /\ llm_response.kind = "message"
    /\ HasVerdict
    /\ judgment.v.bewertung = PyStr(befund.bewertung)

\* C29: the verdict of a Befund is the one the model returned or
\* nicht_pruefbar; a Befund is konform, teilkonform or nicht_konform only
\* if the model was invoked, returned that verdict, and the fused
\* confidence is at least 0.4
C29_NoFabricatedVerdict ==
    Returned /\ befund.bewertung # "nicht_pruefbar"
        => ModelsVerdict /\ Ge(befund.confidence, CONFIDENCE_AUTO_REJECT)

\* C29 for the confidences that are numbers
C29_ForNumbers ==
    Returned /\ befund.bewertung # "nicht_pruefbar" /\ befund.confidence # NaN
        => ModelsVerdict /\ Ge(befund.confidence, CONFIDENCE_AUTO_REJECT)

\* the verdict alone: never one the model did not return
C29_VerdictIsModels == Returned /\ befund.bewertung # "nicht_pruefbar" => ModelsVerdict

\* pruefe_feld returned the Befund of the quality gate
GateRejected == Returned /\ llm_calls = 0 /\ NoChunkAboveMin

\* 0.30 times the minimum score, in thousandths: the least a retrieval
\* signal of scores that passed the gate adds to the confidence
LeastJudged == 3 * RETRIEVAL_SCORE_MIN

\* C30: with the minimum score 0.35 every Befund that rests on a judgment
\* has a fused confidence of at least 0.105, so a Befund has confidence
\* 0.0 exactly when the quality gate rejected the field
C30_ZeroIdentifiesGate ==
    Returned =>
        /\ ModelJudged => Ge(befund.confidence, LeastJudged)
        /\ befund.confidence = 0 <=> GateRejected

\* C30 for the confidences that are numbers
C30_ForNumbers ==
    Returned /\ befund.confidence # NaN =>
        /\ ModelJudged => Ge(befund.confidence, LeastJudged)
        /\ befund.confidence = 0 <=> GateRejected

\* the second half of C30 alone
C30_ZeroIffGate == Returned => (befund.confidence = 0 <=> GateRejected)

=============================================================================
